---- MODULE Spec2Model ----
(***************************************************************************)
(* A model of the EasyCompiler pipeline of src/demo.py: the Lexer (source  *)
(* text to tokens), the recursive-descent Parser (tokens to an AST) and    *)
(* the CodeGenerator (AST to 32-bit x86 assembly lines), together with a   *)
(* small 32-bit machine that executes the emitted lines.                   *)
(*                                                                         *)
(* Source text is a sequence of one-character strings and a lexeme is the  *)
(* slice of the source it was cut from, so a token is                      *)
(* [kind |-> ..., value |-> <<"i","n","t">>].                              *)
(***************************************************************************)
EXTENDS Integers, Sequences, FiniteSets, TLC

VARIABLES
    lexer,        \* the Lexer object: code, pos, tokens
    lexStatus,    \* "running" | "returned" | "raised" : where tokenize() is
    lexError,     \* what the raised exception carries
    parser,       \* the Parser object: tokens, pos
    cutShort,     \* the tokens given end where the grammar requires a token
    parseStatus,  \* "ready" | "returned" | "raised"
    parseResult,  \* the value parse()/parse_expression() returned
    parseError,   \* the kind of exception that left the parser
    gen,          \* the CodeGenerator object: variables, label_counter, code,
                  \* and `returned`: what its generate_label has returned
    ast,          \* the node handed to the generator
    runs,         \* how many times the generator was called
    past,         \* the `returned` of every CodeGenerator constructed before
    mach          \* the machine executing the emitted lines

vars == <<lexer, lexStatus, lexError, parser, cutShort, parseStatus,
          parseResult, parseError, gen, ast, runs, past, mach>>

lexVars   == <<lexer, lexStatus, lexError>>
parseVars == <<parser, cutShort, parseStatus, parseResult, parseError>>
genVars   == <<gen, ast, runs, past>>
notLexVars == <<parseVars, genVars, mach>>
notGenVars == <<lexVars, parseVars, mach>>
notMachVars == <<lexVars, parseVars, genVars>>

(***************************************************************************)
(* Bounds of the model.                                                    *)
(***************************************************************************)
MaxSrcLen == 4
MaxExprLen == 5
MaxGenBody == 2
MaxRuns == 2
MaxSteps == 90
MaxStack == 6
MaxFuel == 6

(***************************************************************************)
(* Generic helpers.                                                        *)
(***************************************************************************)
Min(a, b) == IF a < b THEN a ELSE b

\* s[from+1 .. to] for zero-based half-open [from, to), as Python's s[from:to]
Slice(s, from, to) == SubSeq(s, from + 1, Min(to, Len(s)))

\* Python's s.startswith(p, at), `at` zero-based
StartsWith(s, p, at) ==
    /\ at + Len(p) <= Len(s)
    /\ \A i \in 1..Len(p) : s[at + i] = p[i]

SeqsUpTo(S, n) == UNION { [1..k -> S] : k \in 0..n }

(***************************************************************************)
(* Lexer                                                                   *)
(***************************************************************************)
\* the characters the model's sources are written in
Letters    == {"i", "f"}
Digits     == {"1"}
Spaces     == {" "}
Chars      == Letters \cup Digits \cup Spaces \cup {"_", "=", "!", "<", "@"}

isspace(c) == c \in Spaces
isalpha(c) == c \in Letters
isdigit(c) == c \in Digits
isalnum(c) == isalpha(c) \/ isdigit(c)

keywords == { <<"i","n","t">>, <<"r","e","t","u","r","n">>, <<"i","f">>,
              <<"e","l","s","e">>, <<"w","h","i","l","e">> }

symbols == { <<"=">>, <<";">>, <<"(">>, <<")">>, <<"{">>, <<"}">>, <<"+">>,
             <<"-">>, <<"*">>, <<"/">>, <<"<">>, <<">">>, <<"=","=">>,
             <<"!","=">> }

Token(k, v) == [kind |-> k, value |-> v]

NoLexError == [text |-> "", character |-> ""]

\* the end of the maximal run of characters satisfying ok(_) that starts at
\* zero-based p: the inner while loops of tokenize
RECURSIVE ScanWhile(_, _, _)
ScanWhile(code, p, okSet) ==
    IF p < Len(code) /\ code[p + 1] \in okSet
    THEN ScanWhile(code, p + 1, okSet)
    ELSE p

IdentChars == Letters \cup Digits \cup {"_"}

\* sorted(self.symbols, key=len, reverse=True): the candidate lengths in the
\* order the for loop tries them
SymbolLengthsShortestFirst == <<1, 2>>
SymbolLengths == <<2, 1>>

\* the symbols of length n that the source starts with at `at`
SymbolsAt(code, at, n) ==
    { s \in symbols : Len(s) = n /\ StartsWith(code, s, at) }

\* the first symbol, in the loop's order, that the source starts with at
\* `at`; <<>> when the loop runs to its else branch
FirstSymbol(code, at) ==
    LET hits == { i \in 1..Len(SymbolLengths) :
                    SymbolsAt(code, at, SymbolLengths[i]) # {} }
    IN  IF hits = {} THEN <<>>
        ELSE LET first == CHOOSE i \in hits : \A j \in hits : i <= j
             IN  CHOOSE s \in SymbolsAt(code, at, SymbolLengths[first]) : TRUE

CurChar == lexer.code[lexer.pos + 1]

LexInitObj(src) == [code |-> src, pos |-> 0, tokens |-> <<>>]

\* line 17-19
SkipWhitespace ==
    /\ lexStatus = "running"
    /\ lexer.pos < Len(lexer.code)
    /\ isspace(CurChar)
    /\ lexer' = [lexer EXCEPT !.pos = @ + 1]
    /\ UNCHANGED <<lexStatus, lexError>>
    /\ UNCHANGED notLexVars

\* line 22-31
LexIdentifier ==
    /\ lexStatus = "running"
    /\ lexer.pos < Len(lexer.code)
    /\ ~isspace(CurChar)
    /\ isalpha(CurChar)
    /\ LET end == ScanWhile(lexer.code, lexer.pos, IdentChars)
           token_value == Slice(lexer.code, lexer.pos, end)
           kind == IF token_value \in keywords THEN "KEYWORD" ELSE "IDENTIFIER"
       IN  lexer' = [lexer EXCEPT !.pos = end,
                                  !.tokens = Append(@, Token(kind, token_value))]
    /\ UNCHANGED <<lexStatus, lexError>>
    /\ UNCHANGED notLexVars

\* line 34-39
LexNumber ==
    /\ lexStatus = "running"
    /\ lexer.pos < Len(lexer.code)
    /\ ~isspace(CurChar)
    /\ ~isalpha(CurChar)
    /\ isdigit(CurChar)
    /\ LET end == ScanWhile(lexer.code, lexer.pos, Digits)
       IN  lexer' = [lexer EXCEPT !.pos = end,
                        !.tokens = Append(@, Token("NUMBER",
                                             Slice(lexer.code, lexer.pos, end)))]
    /\ UNCHANGED <<lexStatus, lexError>>
    /\ UNCHANGED notLexVars

\* line 42-46
LexSymbol ==
    /\ lexStatus = "running"
    /\ lexer.pos < Len(lexer.code)
    /\ ~isspace(CurChar)
    /\ ~isalpha(CurChar)
    /\ ~isdigit(CurChar)
    /\ FirstSymbol(lexer.code, lexer.pos) # <<>>
    /\ LET sym == FirstSymbol(lexer.code, lexer.pos)
       IN  lexer' = [lexer EXCEPT !.pos = @ + Len(sym),
                                  !.tokens = Append(@, Token("SYMBOL", sym))]
    /\ UNCHANGED <<lexStatus, lexError>>
    /\ UNCHANGED notLexVars

\* line 47-48: the message names the character and nothing else
LexUnknown ==
    /\ lexStatus = "running"
    /\ lexer.pos < Len(lexer.code)
    /\ ~isspace(CurChar)
    /\ ~isalpha(CurChar)
    /\ ~isdigit(CurChar)
    /\ FirstSymbol(lexer.code, lexer.pos) = <<>>
    /\ lexStatus' = "raised"
    /\ lexError' = [text |-> "unknown character", character |-> CurChar]
    /\ UNCHANGED lexer
    /\ UNCHANGED notLexVars

\* line 15, 50
LexReturn ==
    /\ lexStatus = "running"
    /\ lexer.pos >= Len(lexer.code)
    /\ lexStatus' = "returned"
    /\ UNCHANGED <<lexer, lexError>>
    /\ UNCHANGED notLexVars

LexNext ==
    \/ SkipWhitespace
    \/ LexIdentifier
    \/ LexNumber
    \/ LexSymbol
    \/ LexUnknown
    \/ LexReturn

(***************************************************************************)
(* Parser.  Every parse_x method becomes an operator from the token list   *)
(* and the cursor to [pos, node, err]: the cursor after the call, the node *)
(* returned, and the exception that left it ("" when it returned).         *)
(***************************************************************************)
KwInt    == <<"i","n","t">>
KwReturn == <<"r","e","t","u","r","n">>
KwIf     == <<"i","f">>
KwElse   == <<"e","l","s","e">>
KwWhile  == <<"w","h","i","l","e">>

None == <<>>

Ok(p, n)   == [pos |-> p, node |-> n, err |-> ""]
Fail(p, e) == [pos |-> p, node |-> None, err |-> e]

\* F of x, with x evaluated once
Let(x, F(_)) == CHOOSE y \in { F(v) : v \in {x} } : TRUE

\* x, and then F of it unless x is an exception on its way out; each of x
\* and F(x) is evaluated once
Then(x, F(_)) ==
    CHOOSE y \in { IF v.err # "" THEN v ELSE F(v) : v \in {x} } : TRUE

\* line 63-70; value = None matches any lexeme
eat(toks, pos, token_type, value) ==
    IF pos >= Len(toks) THEN Fail(pos, "UnexpectedEOF")
    ELSE IF toks[pos + 1].kind # token_type
            \/ (value # None /\ toks[pos + 1].value # value)
    THEN Fail(pos, "SyntaxError")
    ELSE Ok(pos + 1, toks[pos + 1])


DigitVal(c) ==
    CASE c = "0" -> 0 [] c = "1" -> 1 [] c = "2" -> 2 [] c = "3" -> 3
      [] c = "4" -> 4 [] c = "5" -> 5 [] c = "6" -> 6 [] c = "7" -> 7
      [] c = "8" -> 8 [] c = "9" -> 9

\* int(token[1]) of a run of decimal digits
RECURSIVE IntOf(_)
IntOf(lexeme) ==
    IF lexeme = <<>> THEN 0
    ELSE 10 * IntOf(SubSeq(lexeme, 1, Len(lexeme) - 1))
         + DigitVal(lexeme[Len(lexeme)])

Number(v)          == [type |-> "number", value |-> v]
Variable(n)        == [type |-> "variable", name |-> n]
BinaryOp(o, l, r)  == [type |-> "binary_operation", op |-> o, left |-> l,
                       right |-> r]
Return(e)          == [type |-> "return", expression |-> e]
Declaration(n)     == [type |-> "declaration", name |-> n]
Assignment(n, e)   == [type |-> "assignment", name |-> n, expression |-> e]
If(c, t, e)        == [type |-> "if", condition |-> c, then |-> t, else |-> e]
While(c, b)        == [type |-> "while", condition |-> c, body |-> b]
Function(n, b)     == [type |-> "function", name |-> n, body |-> b]
Program(fs)        == [type |-> "program", functions |-> fs]

ComparisonOps     == { <<"=","=">>, <<"!","=">>, <<"<">>, <<">">>,
                       <<"<","=">>, <<">","=">> }
AdditionOps       == { <<"+">>, <<"-">> }
MultiplicationOps == { <<"*">>, <<"/">> }

\* self.current_token() and self.current_token()[1] in ops
CurIn(toks, pos, ops) == pos < Len(toks) /\ toks[pos + 1].value \in ops

RECURSIVE parse_expression(_, _), parse_comparison(_, _), parse_addition(_, _),
          parse_multiplication(_, _), parse_primary(_, _),
          ComparisonLoop(_, _, _), AdditionLoop(_, _, _),
          MultiplicationLoop(_, _, _)

\* line 199-213; current_token() is None past the end and token[0] fails
parse_primary(toks, pos) ==
    IF pos >= Len(toks) THEN Fail(pos, "TypeError")
    ELSE IF toks[pos + 1].kind = "NUMBER"
    THEN Then(eat(toks, pos, "NUMBER", None),
              LAMBDA t : Ok(t.pos, Number(IntOf(t.node.value))))
    ELSE IF toks[pos + 1].kind = "IDENTIFIER"
    THEN Then(eat(toks, pos, "IDENTIFIER", None),
              LAMBDA t : Ok(t.pos, Variable(t.node.value)))
    ELSE IF toks[pos + 1].value = <<"(">>
    THEN Then(eat(toks, pos, "SYMBOL", <<"(">>), LAMBDA o :
         Then(parse_expression(toks, o.pos), LAMBDA e :
         Then(eat(toks, e.pos, "SYMBOL", <<")">>), LAMBDA c :
         Ok(c.pos, e.node))))
    ELSE Fail(pos, "UnexpectedToken")

\* line 192-195
MultiplicationLoop(toks, pos, left) ==
    IF CurIn(toks, pos, MultiplicationOps)
    THEN Then(eat(toks, pos, "SYMBOL", None), LAMBDA o :
         Then(parse_primary(toks, o.pos), LAMBDA r :
         MultiplicationLoop(toks, r.pos, BinaryOp(o.node.value, left, r.node))))
    ELSE Ok(pos, left)

\* line 189-197
parse_multiplication(toks, pos) ==
    Then(parse_primary(toks, pos),
         LAMBDA l : MultiplicationLoop(toks, l.pos, l.node))

\* a right operand that swallows the rest of the tier: right-associative
AdditionLoopRightAssoc(toks, pos, left) ==
    IF CurIn(toks, pos, AdditionOps)
    THEN Then(eat(toks, pos, "SYMBOL", None), LAMBDA o :
         Then(parse_addition(toks, o.pos), LAMBDA r :
         Ok(r.pos, BinaryOp(o.node.value, left, r.node))))
    ELSE Ok(pos, left)

\* line 182-185
AdditionLoop(toks, pos, left) ==
    IF CurIn(toks, pos, AdditionOps)
    THEN Then(eat(toks, pos, "SYMBOL", None), LAMBDA o :
         Then(parse_multiplication(toks, o.pos), LAMBDA r :
         AdditionLoop(toks, r.pos, BinaryOp(o.node.value, left, r.node))))
    ELSE Ok(pos, left)

\* line 179-187
parse_addition(toks, pos) ==
    Then(parse_multiplication(toks, pos),
         LAMBDA l : AdditionLoop(toks, l.pos, l.node))

\* line 172-175
ComparisonLoop(toks, pos, left) ==
    IF CurIn(toks, pos, ComparisonOps)
    THEN Then(eat(toks, pos, "SYMBOL", None), LAMBDA o :
         Then(parse_addition(toks, o.pos), LAMBDA r :
         ComparisonLoop(toks, r.pos, BinaryOp(o.node.value, left, r.node))))
    ELSE Ok(pos, left)

\* line 169-177
parse_comparison(toks, pos) ==
    Then(parse_addition(toks, pos),
         LAMBDA l : ComparisonLoop(toks, l.pos, l.node))

\* line 166-167
parse_expression(toks, pos) == parse_comparison(toks, pos)

RECURSIVE parse_statement(_, _), ParseBlock(_, _, _), parse_if(_, _),
          parse_while(_, _)

\* line 110-114
parse_return(toks, pos) ==
    Then(eat(toks, pos, "KEYWORD", KwReturn), LAMBDA k :
    Then(parse_expression(toks, k.pos), LAMBDA e :
    Then(eat(toks, e.pos, "SYMBOL", <<";">>), LAMBDA s :
    Ok(s.pos, Return(e.node)))))

\* line 116-120
parse_declaration(toks, pos) ==
    Then(eat(toks, pos, "KEYWORD", KwInt), LAMBDA k :
    Then(eat(toks, k.pos, "IDENTIFIER", None), LAMBDA var_name :
    Then(eat(toks, var_name.pos, "SYMBOL", <<";">>), LAMBDA s :
    Ok(s.pos, Declaration(var_name.node.value)))))

\* line 122-127
parse_assignment(toks, pos) ==
    Then(eat(toks, pos, "IDENTIFIER", None), LAMBDA var_name :
    Then(eat(toks, var_name.pos, "SYMBOL", <<"=">>), LAMBDA q :
    Then(parse_expression(toks, q.pos), LAMBDA e :
    Then(eat(toks, e.pos, "SYMBOL", <<";">>), LAMBDA s :
    Ok(s.pos, Assignment(var_name.node.value, e.node))))))

\* the statement loops of line 89-90, 137-138, 146-147, 160-161:
\* while self.current_token() and self.current_token()[1] != '}'
ParseBlock(toks, pos, acc) ==
    IF pos < Len(toks) /\ toks[pos + 1].value # <<"}">>
    THEN Then(parse_statement(toks, pos),
              LAMBDA s : ParseBlock(toks, s.pos, Append(acc, s.node)))
    ELSE Ok(pos, acc)

\* '{' Statement* '}'
ParseBraces(toks, pos) ==
    Then(eat(toks, pos, "SYMBOL", <<"{">>), LAMBDA o :
    Then(ParseBlock(toks, o.pos, <<>>), LAMBDA b :
    Then(eat(toks, b.pos, "SYMBOL", <<"}">>), LAMBDA c :
    Ok(c.pos, b.node))))

\* line 142-148
ParseElse(toks, pos) ==
    IF pos < Len(toks) /\ toks[pos + 1].value = KwElse
    THEN Then(eat(toks, pos, "KEYWORD", KwElse),
              LAMBDA k : ParseBraces(toks, k.pos))
    ELSE Ok(pos, <<>>)

\* line 129-150
parse_if(toks, pos) ==
    Then(eat(toks, pos, "KEYWORD", KwIf), LAMBDA k :
    Then(eat(toks, k.pos, "SYMBOL", <<"(">>), LAMBDA o :
    Then(parse_expression(toks, o.pos), LAMBDA condition :
    Then(eat(toks, condition.pos, "SYMBOL", <<")">>), LAMBDA c :
    Then(ParseBraces(toks, c.pos), LAMBDA then_block :
    Then(ParseElse(toks, then_block.pos), LAMBDA else_block :
    Ok(else_block.pos,
       If(condition.node, then_block.node, else_block.node))))))))

\* line 152-164
parse_while(toks, pos) ==
    Then(eat(toks, pos, "KEYWORD", KwWhile), LAMBDA k :
    Then(eat(toks, k.pos, "SYMBOL", <<"(">>), LAMBDA o :
    Then(parse_expression(toks, o.pos), LAMBDA condition :
    Then(eat(toks, condition.pos, "SYMBOL", <<")">>), LAMBDA c :
    Then(ParseBraces(toks, c.pos), LAMBDA body :
    Ok(body.pos, While(condition.node, body.node)))))))

\* line 95-108; token[0] on None is a TypeError and self.tokens[self.pos + 1]
\* past the end an IndexError
parse_statement(toks, pos) ==
    IF pos >= Len(toks) THEN Fail(pos, "TypeError")
    ELSE IF toks[pos + 1].kind = "KEYWORD" /\ toks[pos + 1].value = KwReturn
    THEN parse_return(toks, pos)
    ELSE IF toks[pos + 1].kind = "KEYWORD" /\ toks[pos + 1].value = KwInt
    THEN parse_declaration(toks, pos)
    ELSE IF toks[pos + 1].kind = "IDENTIFIER" /\ pos + 1 >= Len(toks)
    THEN Fail(pos, "IndexError")
    ELSE IF toks[pos + 1].kind = "IDENTIFIER" /\ toks[pos + 2].value = <<"=">>
    THEN parse_assignment(toks, pos)
    ELSE IF toks[pos + 1].kind = "KEYWORD" /\ toks[pos + 1].value = KwIf
    THEN parse_if(toks, pos)
    ELSE IF toks[pos + 1].kind = "KEYWORD" /\ toks[pos + 1].value = KwWhile
    THEN parse_while(toks, pos)
    ELSE Fail(pos, "UnknownStatement")

\* line 81-93
parse_function(toks, pos) ==
    Then(eat(toks, pos, "KEYWORD", KwInt), LAMBDA k :
    Then(eat(toks, k.pos, "IDENTIFIER", None), LAMBDA func_name :
    Then(eat(toks, func_name.pos, "SYMBOL", <<"(">>), LAMBDA o :
    Then(eat(toks, o.pos, "SYMBOL", <<")">>), LAMBDA c :
    Then(ParseBraces(toks, c.pos), LAMBDA statements :
    Ok(statements.pos, Function(func_name.node.value, statements.node)))))))

\* line 75-79
RECURSIVE ParseFunctions(_, _, _)
ParseFunctions(toks, pos, functions) ==
    IF pos < Len(toks) /\ toks[pos + 1].value = KwInt
    THEN Then(parse_function(toks, pos),
              LAMBDA f : ParseFunctions(toks, f.pos, Append(functions, f.node)))
    ELSE Ok(pos, Program(functions))

parse_program(toks, pos) == ParseFunctions(toks, pos, <<>>)


\* line 72-73
parse(toks, pos) == parse_program(toks, pos)

(***************************************************************************)
(* Token sequences written from an AST by the grammar of the parser: the   *)
(* inputs the parser is run on.                                            *)
(***************************************************************************)
Kw(v)  == Token("KEYWORD", v)
Id(v)  == Token("IDENTIFIER", v)
Sym(v) == Token("SYMBOL", v)

DigitChar(d) ==
    CASE d = 0 -> "0" [] d = 1 -> "1" [] d = 2 -> "2" [] d = 3 -> "3"
      [] d = 4 -> "4" [] d = 5 -> "5" [] d = 6 -> "6" [] d = 7 -> "7"
      [] d = 8 -> "8" [] d = 9 -> "9"

RECURSIVE StrOf(_)
StrOf(n) == IF n < 10 THEN <<DigitChar(n)>>
            ELSE Append(StrOf(n \div 10), DigitChar(n % 10))

\* 1: comparison, 2: addition, 3: multiplication, 4: primary
Tier(e) ==
    IF e.type # "binary_operation" THEN 4
    ELSE IF e.op \in ComparisonOps THEN 1
    ELSE IF e.op \in AdditionOps THEN 2
    ELSE 3

RECURSIVE UnparseExpr(_)
Paren(e, needed) ==
    IF needed THEN <<Sym(<<"(">>)>> \o UnparseExpr(e) \o <<Sym(<<")">>)>>
    ELSE UnparseExpr(e)

UnparseExpr(e) ==
    IF e.type = "number" THEN <<Token("NUMBER", StrOf(e.value))>>
    ELSE IF e.type = "variable" THEN <<Id(e.name)>>
    ELSE Paren(e.left, Tier(e.left) < Tier(e))
         \o <<Sym(e.op)>>
         \o Paren(e.right, Tier(e.right) <= Tier(e))

RECURSIVE UnparseStmt(_), UnparseBlock(_)
UnparseBlock(b) ==
    IF b = <<>> THEN <<>> ELSE UnparseStmt(Head(b)) \o UnparseBlock(Tail(b))

Braces(b) == <<Sym(<<"{">>)>> \o UnparseBlock(b) \o <<Sym(<<"}">>)>>

UnparseStmt(s) ==
    IF s.type = "return"
    THEN <<Kw(KwReturn)>> \o UnparseExpr(s.expression) \o <<Sym(<<";">>)>>
    ELSE IF s.type = "declaration"
    THEN <<Kw(KwInt), Id(s.name), Sym(<<";">>)>>
    ELSE IF s.type = "assignment"
    THEN <<Id(s.name), Sym(<<"=">>)>> \o UnparseExpr(s.expression)
         \o <<Sym(<<";">>)>>
    ELSE IF s.type = "if"
    THEN <<Kw(KwIf), Sym(<<"(">>)>> \o UnparseExpr(s.condition)
         \o <<Sym(<<")">>)>> \o Braces(s.then)
         \o (IF s.else = <<>> THEN <<>> ELSE <<Kw(KwElse)>> \o Braces(s.else))
    ELSE <<Kw(KwWhile), Sym(<<"(">>)>> \o UnparseExpr(s.condition)
         \o <<Sym(<<")">>)>> \o Braces(s.body)

UnparseFunction(f) ==
    <<Kw(KwInt), Id(f.name), Sym(<<"(">>), Sym(<<")">>)>> \o Braces(f.body)

RECURSIVE UnparseFunctions(_)
UnparseFunctions(fs) ==
    IF fs = <<>> THEN <<>>
    ELSE UnparseFunction(Head(fs)) \o UnparseFunctions(Tail(fs))

(***************************************************************************)
(* Bounded sets of ASTs.                                                   *)
(***************************************************************************)
SimpleStmts(names, exprs) ==
    { Declaration(n) : n \in names }
    \cup { Assignment(n, e) : n \in names, e \in exprs }
    \cup { Return(e) : e \in exprs }

CompoundStmts(conds, blocks) ==
    { If(c, t, e) : c \in conds, t \in blocks, e \in blocks }
    \cup { While(c, b) : c \in conds, b \in blocks }

VarA == <<"a">>
VarB == <<"b">>
Main == <<"m","a","i","n">>
Other == <<"f">>

(***************************************************************************)
(* The parser run on programs: whole, cut short, or with tokens left over. *)
(***************************************************************************)
MaxParseBody == 1

ParseExprs  == { Number(1), BinaryOp(<<"+">>, Variable(VarA), Number(1)) }
ParseSimple == SimpleStmts({VarA}, ParseExprs)
ParseStmts  == ParseSimple
               \cup CompoundStmts({Variable(VarA)}, SeqsUpTo(ParseSimple, 1))
ParseBodies == SeqsUpTo(ParseStmts, MaxParseBody)
ParsePrograms ==
    { <<>> }
    \cup { <<Function(Main, b)>> : b \in ParseBodies }
    \cup { <<Function(Main, b), Function(Other, <<>>)>> : b \in ParseBodies }

LeftOver == { <<>>, <<Sym(<<"}">>)>>, <<Sym(<<";">>)>>, <<Kw(KwReturn)>>,
              <<Id(VarA)>>, <<Token("NUMBER", <<"1">>)>>, <<Kw(KwInt)>> }

\* the lengths at which the tokens of fs end a whole function
RECURSIVE Boundaries(_)
Boundaries(fs) ==
    IF fs = <<>> THEN {0}
    ELSE { Len(UnparseFunctions(fs)) }
         \cup Boundaries(SubSeq(fs, 1, Len(fs) - 1))

IdleLexer  == LexInitObj(<<>>)
IdleParser == [tokens |-> <<>>, pos |-> 0]
\* line 217-220
NewCodeGenerator ==
    [variables |-> {}, label_counter |-> 0, code |-> <<>>, returned |-> <<>>]
IdleGen    == NewCodeGenerator
IdleMach   == [halted |-> "off"]

\* line 54-56
ParserInitObj(toks) == [tokens |-> toks, pos |-> 0]

Raised(r)   == r.err # ""

(***************************************************************************)
(* CodeGenerator.  A line of assembly is [op, arg, name]: the text of the  *)
(* instruction with its one number or its one label taken out, so          *)
(* "mov $7, %eax" is Line("mov $, %eax", 7, <<>>) and "je L3" is           *)
(* Line("je", 0, <<"L","3">>).  Every generate_x method is an operator     *)
(* from the generator object to the generator object after the call.       *)
(***************************************************************************)
Line(o, a, n) == [op |-> o, arg |-> a, name |-> n]
Ins(o)        == Line(o, 0, <<>>)
LabelDef(l)   == Line(":", 0, l)

Emit(g, line)     == [g EXCEPT !.code = Append(@, line)]
EmitAll(g, lines) == [g EXCEPT !.code = @ \o lines]

\* a counter that hands out the next label without keeping the increment
generate_labelStuck(g) ==
    [g EXCEPT !.returned = Append(@, <<"L">> \o StrOf(g.label_counter + 1))]

\* line 222-224; the label returned is the last of `returned`
generate_label(g) ==
    [g EXCEPT !.label_counter = @ + 1,
              !.returned = Append(@, <<"L">> \o StrOf(g.label_counter + 1))]

LastLabel(g) == g.returned[Len(g.returned)]

\* line 366-369
get_variable_offset(g, var_name) == -4

\* line 340-364: no line for an operator the chain does not list
OpLines(op) ==
    IF op = <<"+">> THEN <<Ins("add %ecx, %eax")>>
    ELSE IF op = <<"-">> THEN <<Ins("sub %ecx, %eax")>>
    ELSE IF op = <<"*">> THEN <<Ins("imul %ecx, %eax")>>
    ELSE IF op = <<"/">> THEN <<Ins("cdq"), Ins("idiv %ecx")>>
    ELSE IF op = <<"=","=">>
    THEN <<Ins("cmp %ecx, %eax"), Ins("sete %al"), Ins("movzbl %al, %eax")>>
    ELSE IF op = <<"!","=">>
    THEN <<Ins("cmp %ecx, %eax"), Ins("setne %al"), Ins("movzbl %al, %eax")>>
    ELSE IF op = <<"<">>
    THEN <<Ins("cmp %ecx, %eax"), Ins("setl %al"), Ins("movzbl %al, %eax")>>
    ELSE IF op = <<">">>
    THEN <<Ins("cmp %ecx, %eax"), Ins("setg %al"), Ins("movzbl %al, %eax")>>
    ELSE <<>>

\* line 328-364
RECURSIVE generate_expression(_, _)
generate_expression(g, expr) ==
    IF expr.type = "number"
    THEN Emit(g, Line("mov $, %eax", expr.value, <<>>))
    ELSE IF expr.type = "variable"
    THEN Emit(g, Line("mov (%ebp), %eax",
                      get_variable_offset(g, expr.name), <<>>))
    ELSE IF expr.type = "binary_operation"
    THEN EmitAll(
           generate_expression(
             Emit(generate_expression(g, expr.right), Ins("push %eax")),
             expr.left),
           <<Ins("pop %ecx")>> \o OpLines(expr.op))
    ELSE g

RECURSIVE generate_statement(_, _), GenerateBlock(_, _), generate_if(_, _),
          generate_while(_, _)

\* for s in block: self.generate_statement(s)
GenerateBlock(g, block) ==
    IF block = <<>> THEN g
    ELSE GenerateBlock(generate_statement(g, Head(block)), Tail(block))

\* an If that jumps to the else label even when there is no else block
generate_ifAlwaysElseLabel(g, stmt) ==
    Let(generate_label(g), LAMBDA g1 :
    Let(generate_label(g1), LAMBDA g2 :
    Let(LastLabel(g1), LAMBDA else_label :
    Let(LastLabel(g2), LAMBDA end_label :
    Let(GenerateBlock(
          EmitAll(generate_expression(g2, stmt.condition),
                  <<Ins("cmp $0, %eax"), Line("je", 0, else_label)>>),
          stmt.then), LAMBDA g3 :
        IF stmt.else # <<>>
        THEN Emit(GenerateBlock(
                    EmitAll(g3, <<Line("jmp", 0, end_label),
                                  LabelDef(else_label)>>),
                    stmt.else),
                  LabelDef(end_label))
        ELSE Emit(g3, LabelDef(end_label)))))))

\* line 284-308
generate_if(g, stmt) ==
    Let(generate_label(g), LAMBDA g1 :
    Let(generate_label(g1), LAMBDA g2 :
    Let(LastLabel(g1), LAMBDA else_label :
    Let(LastLabel(g2), LAMBDA end_label :
    Let(GenerateBlock(
          EmitAll(generate_expression(g2, stmt.condition),
                  <<Ins("cmp $0, %eax"),
                    Line("je", 0, IF stmt.else # <<>> THEN else_label
                                  ELSE end_label)>>),
          stmt.then), LAMBDA g3 :
        IF stmt.else # <<>>
        THEN Emit(GenerateBlock(
                    EmitAll(g3, <<Line("jmp", 0, end_label),
                                  LabelDef(else_label)>>),
                    stmt.else),
                  LabelDef(end_label))
        ELSE Emit(g3, LabelDef(end_label)))))))

\* line 310-326
generate_while(g, stmt) ==
    Let(generate_label(g), LAMBDA g1 :
    Let(generate_label(g1), LAMBDA g2 :
    Let(LastLabel(g1), LAMBDA start_label :
    Let(LastLabel(g2), LAMBDA end_label :
        EmitAll(
          GenerateBlock(
            EmitAll(generate_expression(Emit(g2, LabelDef(start_label)),
                                        stmt.condition),
                    <<Ins("cmp $0, %eax"), Line("je", 0, end_label)>>),
            stmt.body),
          <<Line("jmp", 0, start_label), LabelDef(end_label)>>)))))

\* line 266-282
generate_statement(g, stmt) ==
    IF stmt.type = "return"
    THEN EmitAll(generate_expression(g, stmt.expression),
                 <<Ins("mov %eax, %ebx"), Ins("mov $1, %eax"),
                   Ins("int $0x80")>>)
    ELSE IF stmt.type = "declaration" THEN g
    ELSE IF stmt.type = "assignment"
    THEN Emit(generate_expression(g, stmt.expression),
              Line("mov %eax, (%ebp)", get_variable_offset(g, stmt.name),
                   <<>>))
    ELSE IF stmt.type = "if" THEN generate_if(g, stmt)
    ELSE IF stmt.type = "while" THEN generate_while(g, stmt)
    ELSE g

\* line 248-251: the declarations that are statements of the body itself
local_vars(func) ==
    { func.body[i].name :
        i \in { j \in 1..Len(func.body) : func.body[j].type = "declaration" } }

\* line 237-264
generate_function(g, func) ==
    EmitAll(
      GenerateBlock(
        EmitAll(g,
          <<LabelDef(IF func.name = Main THEN <<"_","s","t","a","r","t">>
                     ELSE func.name),
            Ins("push %ebp"), Ins("mov %esp, %ebp")>>
          \o (IF local_vars(func) # {}
              THEN <<Line("sub $, %esp", 4 * Cardinality(local_vars(func)),
                          <<>>)>>
              ELSE <<>>)),
        func.body),
      <<Ins("mov %ebp, %esp"), Ins("pop %ebp"), Ins("ret"), Ins("")>>)

RECURSIVE GenerateFunctions(_, _)
GenerateFunctions(g, functions) ==
    IF functions = <<>> THEN g
    ELSE GenerateFunctions(generate_function(g, Head(functions)),
                           Tail(functions))

\* line 226-235
generate(g, node) ==
    IF node.type = "program"
    THEN GenerateFunctions(
           EmitAll(g, <<Ins(".section .text"), Ins(".globl _start"), Ins("")>>),
           node.functions)
    ELSE g

LexIdle   == lexer = IdleLexer /\ lexStatus = "off" /\ lexError = NoLexError
ParseIdle == /\ parser = IdleParser /\ cutShort = FALSE /\ parseStatus = "off"
             /\ parseResult = None /\ parseError = ""
GenIdle   == gen = IdleGen /\ ast = None /\ runs = 0 /\ past = <<>>
MachIdle  == mach = IdleMach

(***************************************************************************)
(* SpecLex: Lexer(code).tokenize() on every source of up to MaxSrcLen      *)
(* characters.                                                             *)
(***************************************************************************)
LexInit ==
    /\ \E src \in SeqsUpTo(Chars, MaxSrcLen) : lexer = LexInitObj(src)
    /\ lexStatus = "running"
    /\ lexError = NoLexError
    /\ ParseIdle /\ GenIdle /\ MachIdle

SpecLex == LexInit /\ [][LexNext]_vars

(***************************************************************************)
(* SpecParse: Parser(tokens).parse() on the tokens of a program: whole,    *)
(* cut short at any token, or with one more token put in at any place.     *)
(***************************************************************************)
ParseInit ==
    /\ \E p \in ParsePrograms, x \in LeftOver, keepRest \in BOOLEAN :
         \E whole \in {UnparseFunctions(p)} :
         \E k \in 0..Len(whole) :
            /\ parser = ParserInitObj(
                   SubSeq(whole, 1, k) \o x
                   \o (IF keepRest THEN SubSeq(whole, k + 1, Len(whole))
                       ELSE <<>>))
            /\ cutShort = (x = <<>> /\ ~keepRest /\ k \notin Boundaries(p))
    /\ parseStatus = "ready"
    /\ parseResult = None
    /\ parseError = ""
    /\ LexIdle /\ GenIdle /\ MachIdle

\* parser.parse(), line 72-73
DoParse ==
    /\ parseStatus = "ready"
    /\ \E r \in {parse(parser.tokens, parser.pos)} :
           /\ parser' = [parser EXCEPT !.pos = r.pos]
           /\ parseStatus' = IF Raised(r) THEN "raised" ELSE "returned"
           /\ parseResult' = r.node
           /\ parseError' = r.err
    /\ UNCHANGED <<cutShort, lexVars, genVars, mach>>

SpecParse == ParseInit /\ [][DoParse]_vars

(***************************************************************************)
(* SpecExpr: parser.parse_expression() on every token sequence of up to    *)
(* MaxExprLen tokens over primaries, operators and parentheses.            *)
(***************************************************************************)
ExprTokens ==
    { Id(VarA), Token("NUMBER", <<"1">>), Sym(<<"(">>), Sym(<<")">>),
      Sym(<<"+">>), Sym(<<"-">>), Sym(<<"*">>), Sym(<<"<">>) }

ExprInit ==
    /\ \E toks \in SeqsUpTo(ExprTokens, MaxExprLen) :
         parser = ParserInitObj(toks)
    /\ cutShort = FALSE
    /\ parseStatus = "ready"
    /\ parseResult = None
    /\ parseError = ""
    /\ LexIdle /\ GenIdle /\ MachIdle

\* parser.parse_expression(), line 166-167
DoParseExpression ==
    /\ parseStatus = "ready"
    /\ \E r \in {parse_expression(parser.tokens, parser.pos)} :
           /\ parser' = [parser EXCEPT !.pos = r.pos]
           /\ parseStatus' = IF Raised(r) THEN "raised" ELSE "returned"
           /\ parseResult' = r.node
           /\ parseError' = r.err
    /\ UNCHANGED <<cutShort, lexVars, genVars, mach>>

SpecExpr == ExprInit /\ [][DoParseExpression]_vars

(***************************************************************************)
(* Claims about the Lexer (SpecLex).                                       *)
(***************************************************************************)
\* the token the step appended, when it appended one
Emitted == Len(lexer'.tokens) = Len(lexer.tokens) + 1
LastToken(l) == l.tokens[Len(l.tokens)]

\* C4: a character that is neither whitespace, a letter, a digit nor the
\* start of a symbol stops tokenize with an error that reports the
\* character and its exact zero-based offset.
C4_LexErrorReportsOffset ==
    lexStatus = "raised" =>
        /\ lexError.character = CurChar
        /\ "position" \in DOMAIN lexError
        /\ lexError.position = lexer.pos

\* C6: every SYMBOL token is the longest registered symbol that is a prefix
\* of the source at the position where it was emitted; "<=" and ">=" are
\* never lexemes.
C6_LongestSymbol ==
    [][ (Emitted /\ LastToken(lexer').kind = "SYMBOL") =>
          LET lexeme == LastToken(lexer').value
          IN  /\ lexeme \in symbols
              /\ StartsWith(lexer.code, lexeme, lexer.pos)
              /\ \A s \in symbols :
                    StartsWith(lexer.code, s, lexer.pos) => Len(s) <= Len(lexeme)
              /\ lexer'.pos = lexer.pos + Len(lexeme)
              /\ lexeme \notin { <<"<","=">>, <<">","=">> } ]_vars

\* "==" and "!=" were each emitted as one token, and "<" followed by "="
\* as two
C6_Witness ==
    /\ lexStatus = "returned"
    /\ \/ lexer.code = <<"=","=","!","=">>
          /\ lexer.tokens = <<Sym(<<"=","=">>), Sym(<<"!","=">>)>>
       \/ lexer.code = <<"<","=">>
          /\ lexer.tokens = <<Sym(<<"<">>), Sym(<<"=">>)>>

(***************************************************************************)
(* Claims about Parser.parse (SpecParse).                                  *)
(***************************************************************************)
\* C3: on a token sequence that ends where the grammar still requires a
\* token, parse fails with UnexpectedEOF, never with an out-of-range access
\* or an access on the absent current token.
C3_CutShortRaisesUnexpectedEOF ==
    (cutShort /\ parseStatus # "ready") =>
        (parseStatus = "raised" /\ parseError = "UnexpectedEOF")

\* C10: when parse returns an AST the cursor is at the end of the tokens.
C10_ReturnedConsumedAll ==
    parseStatus = "returned" => parser.pos = Len(parser.tokens)

(***************************************************************************)
(* The reference reading of an expression: split at the last operator of   *)
(* the loosest tier that stands outside every parenthesis.                 *)
(***************************************************************************)
Invalid == [type |-> "invalid"]

RECURSIVE DepthAfter(_, _)
DepthAfter(toks, i) ==
    IF i = 0 THEN 0
    ELSE DepthAfter(toks, i - 1)
         + (IF toks[i].value = <<"(">> THEN 1
            ELSE IF toks[i].value = <<")">> THEN -1 ELSE 0)

Balanced(toks) ==
    /\ \A i \in 1..Len(toks) : DepthAfter(toks, i) >= 0
    /\ DepthAfter(toks, Len(toks)) = 0

TopLevel(toks, ops) ==
    { i \in 1..Len(toks) : toks[i].value \in ops /\ DepthAfter(toks, i) = 0 }

Last(S) == CHOOSE i \in S : \A j \in S : j <= i

RefLexable == { <<"=","=">>, <<"!","=">>, <<"<">>, <<">">> }

RECURSIVE RefExpr(_)
SplitAt(toks, i) ==
    Let(RefExpr(SubSeq(toks, 1, i - 1)), LAMBDA l :
    Let(RefExpr(SubSeq(toks, i + 1, Len(toks))), LAMBDA r :
        IF l = Invalid \/ r = Invalid THEN Invalid
        ELSE BinaryOp(toks[i].value, l, r)))

RefExpr(toks) ==
    IF toks = <<>> \/ ~Balanced(toks) THEN Invalid
    ELSE IF TopLevel(toks, RefLexable) # {}
    THEN SplitAt(toks, Last(TopLevel(toks, RefLexable)))
    ELSE IF TopLevel(toks, { <<"+">>, <<"-">> }) # {}
    THEN SplitAt(toks, Last(TopLevel(toks, { <<"+">>, <<"-">> })))
    ELSE IF TopLevel(toks, { <<"*">>, <<"/">> }) # {}
    THEN SplitAt(toks, Last(TopLevel(toks, { <<"*">>, <<"/">> })))
    ELSE IF Len(toks) = 1 /\ toks[1].kind = "NUMBER"
    THEN Number(IntOf(toks[1].value))
    ELSE IF Len(toks) = 1 /\ toks[1].kind = "IDENTIFIER"
    THEN Variable(toks[1].value)
    ELSE IF Len(toks) >= 2 /\ toks[1].value = <<"(">>
            /\ toks[Len(toks)].value = <<")">>
    THEN RefExpr(SubSeq(toks, 2, Len(toks) - 1))
    ELSE Invalid

\* C5: on every well-formed expression parse_expression returns the AST of
\* the reference reading (multiplication binds tighter than addition, which
\* binds tighter than comparison; each tier left-associative), having
\* consumed the whole expression.
C5_PrecedenceAndAssociativity ==
    (parseStatus # "ready" /\ RefExpr(parser.tokens) # Invalid) =>
        /\ parseStatus = "returned"
        /\ parseResult = RefExpr(parser.tokens)
        /\ parser.pos = Len(parser.tokens)

\* a - 1 + a read as (a - 1) + a, and a + 1 * a read as a + (1 * a)
C5_Witness ==
    /\ parseStatus = "returned"
    /\ \/ /\ parser.tokens = <<Id(VarA), Sym(<<"-">>), Token("NUMBER", <<"1">>),
                               Sym(<<"+">>), Id(VarA)>>
          /\ parseResult = BinaryOp(<<"+">>,
                               BinaryOp(<<"-">>, Variable(VarA), Number(1)),
                               Variable(VarA))
       \/ /\ parser.tokens = <<Id(VarA), Sym(<<"+">>), Token("NUMBER", <<"1">>),
                               Sym(<<"*">>), Id(VarA)>>
          /\ parseResult = BinaryOp(<<"+">>, Variable(VarA),
                               BinaryOp(<<"*">>, Number(1), Variable(VarA)))

(***************************************************************************)
(* SpecGen: CodeGenerator().generate(ast) on a bounded set of programs,    *)
(* called up to MaxRuns times, on the same generator or on a new one.      *)
(***************************************************************************)
GenCond   == BinaryOp(<<"<">>, Variable(VarA), Number(1))
GenSimple == SimpleStmts({VarA, VarB}, {Variable(VarB)})
GenInner  == { Declaration(VarB), Assignment(VarA, Variable(VarB)) }
GenNested ==
    { If(GenCond, <<If(GenCond, <<Declaration(VarB)>>,
                       <<Assignment(VarA, Variable(VarB))>>)>>, <<>>),
      If(GenCond, <<While(GenCond, <<Declaration(VarB)>>)>>, <<>>),
      While(GenCond, <<If(GenCond, <<Declaration(VarB)>>, <<>>)>>) }
GenStmts  == GenSimple \cup CompoundStmts({GenCond}, SeqsUpTo(GenInner, 1))
             \cup GenNested
GenBodies == SeqsUpTo(GenStmts, MaxGenBody)
SecondFunction ==
    Function(Other, <<Declaration(VarA),
                      If(GenCond, <<Declaration(VarB)>>, <<>>)>>)
GenPrograms ==
    { Program(<<Function(Main, b)>>) : b \in GenBodies }
    \cup { Program(<<Function(Main, b), SecondFunction>>) : b \in GenBodies }

GenInit ==
    /\ ast \in GenPrograms
    /\ gen = NewCodeGenerator
    /\ runs = 0
    /\ past = <<>>
    /\ LexIdle /\ ParseIdle /\ MachIdle

\* generator.generate(ast), line 399
Generate ==
    /\ runs < MaxRuns
    /\ gen' = generate(gen, ast)
    /\ runs' = runs + 1
    /\ UNCHANGED <<ast, past, notGenVars>>

\* generator = CodeGenerator(), line 398, once the one before was used
Construct ==
    /\ runs < MaxRuns
    /\ gen.code # <<>>
    /\ gen' = NewCodeGenerator
    /\ past' = Append(past, gen.returned)
    /\ UNCHANGED <<ast, runs, notGenVars>>

GenNext ==
    \/ Generate
    \/ Construct

SpecGen == GenInit /\ [][GenNext]_vars

(***************************************************************************)
(* SpecIf: generator.generate_if(stmt) on a bounded set of If statements,  *)
(* called up to MaxRuns times on the same generator.                       *)
(***************************************************************************)
IfInner ==
    { Declaration(VarB),
      If(GenCond, <<Assignment(VarA, Number(1))>>,
                  <<Assignment(VarA, Variable(VarB))>>),
      If(GenCond, <<Return(Variable(VarB))>>, <<>>),
      While(GenCond, <<Assignment(VarA, Number(1))>>) }
IfBlocks == SeqsUpTo(IfInner, MaxGenBody)
IfSet    == { If(GenCond, t, e) : t \in IfBlocks, e \in IfBlocks }
            \cup { If(Number(1), t, e) : t \in SeqsUpTo(IfInner, 1),
                                          e \in SeqsUpTo(IfInner, 1) }

IfInit ==
    /\ ast \in IfSet
    /\ gen = NewCodeGenerator
    /\ runs = 0
    /\ past = <<>>
    /\ LexIdle /\ ParseIdle /\ MachIdle

\* generator.generate_if(stmt), line 284-308
DoGenerateIf ==
    /\ runs < MaxRuns
    /\ gen' = generate_if(gen, ast)
    /\ runs' = runs + 1
    /\ UNCHANGED <<ast, past, notGenVars>>

SpecIf == IfInit /\ [][DoGenerateIf]_vars

(***************************************************************************)
(* Claims about the CodeGenerator.                                         *)
(***************************************************************************)
\* the names a block declares, declarations inside if/while bodies included
RECURSIVE DeclaredIn(_)
DeclaredIn(block) ==
    IF block = <<>> THEN {}
    ELSE LET s == Head(block)
         IN  (IF s.type = "declaration" THEN {s.name}
              ELSE IF s.type = "if" THEN DeclaredIn(s.then) \cup DeclaredIn(s.else)
              ELSE IF s.type = "while" THEN DeclaredIn(s.body)
              ELSE {})
             \cup DeclaredIn(Tail(block))

\* the names an expression reads
RECURSIVE ReadBy(_)
ReadBy(e) ==
    IF e.type = "variable" THEN {e.name}
    ELSE IF e.type = "binary_operation" THEN ReadBy(e.left) \cup ReadBy(e.right)
    ELSE {}

\* the names the code of a block loads or stores
RECURSIVE UsedIn(_)
UsedIn(block) ==
    IF block = <<>> THEN {}
    ELSE LET s == Head(block)
         IN  (IF s.type = "assignment" THEN {s.name} \cup ReadBy(s.expression)
              ELSE IF s.type = "return" THEN ReadBy(s.expression)
              ELSE IF s.type = "if"
              THEN ReadBy(s.condition) \cup UsedIn(s.then) \cup UsedIn(s.else)
              ELSE IF s.type = "while"
              THEN ReadBy(s.condition) \cup UsedIn(s.body)
              ELSE {})
             \cup UsedIn(Tail(block))

Functions == { ast.functions[i] : i \in 1..Len(ast.functions) }

\* C1: within one function two different declared variables never resolve
\* to the same stack-frame offset, so the loads and stores of one never
\* address the slot of another.
C1_DistinctOffsets ==
    runs > 0 =>
        \A f \in Functions :
            \A x, y \in DeclaredIn(f.body) \cap UsedIn(f.body) :
                x # y => get_variable_offset(gen, x) # get_variable_offset(gen, y)

\* the number a label "L<n>" carries
LabelNumber(label) == IntOf(Tail(label))

Increasing(log) ==
    \A i, j \in 1..Len(log) :
        i < j => (log[i] # log[j] /\ LabelNumber(log[i]) < LabelNumber(log[j]))

RECURSIVE Flatten(_)
Flatten(logs) == IF logs = <<>> THEN <<>> ELSE Head(logs) \o Flatten(Tail(logs))

\* C7 as stated: over every generate_label call of the process, whatever
\* generator made it, no label is returned twice and each number is
\* greater than every earlier one.
C7_UniqueProcessWide == Increasing(Flatten(past) \o gen.returned)

\* C7 as amended: over the generate_label calls of one CodeGenerator, in
\* any number of generate() runs of it, no label is returned twice and each
\* number is greater than every earlier one.
C7_UniquePerGenerator ==
    /\ Increasing(gen.returned)
    /\ \A k \in 1..Len(past) : Increasing(past[k])

\* a second run of the same generator went on numbering after the first
C7_Witness ==
    /\ runs = 2
    /\ past = <<>>
    /\ Len(gen.returned) >= 4
    /\ gen.returned[1] = <<"L","1">>

\* the lines the step added to the generator's buffer
NewLines == SubSeq(gen'.code, Len(gen.code) + 1, Len(gen'.code))

Indices(lines, line) == { i \in 1..Len(lines) : lines[i] = line }

\* C9: after the prologue of every function comes 'sub $4*N, %esp' with N
\* the number of distinct names the function declares, declarations inside
\* if/while bodies included, and no 'sub' line exactly when N = 0.
FrameLines(lines, functions) ==
    LET pushes == Indices(lines, Ins("push %ebp"))
        Nth(k) == CHOOSE i \in pushes :
                     Cardinality({ j \in pushes : j <= i }) = k
    IN  /\ Cardinality(pushes) = Len(functions)
        /\ \A k \in 1..Len(functions) :
              LET N == Cardinality(DeclaredIn(functions[k].body))
                  at == Nth(k) + 2
              IN  /\ lines[at - 1] = Ins("mov %esp, %ebp")
                  /\ N > 0 => lines[at] = Line("sub $, %esp", 4 * N, <<>>)
                  /\ N = 0 => lines[at].op # "sub $, %esp"

C9_FrameReservation ==
    [][ runs' = runs + 1 => FrameLines(NewLines, ast.functions) ]_vars

\* C8: generate_if emits the condition's code, 'cmp $0, %eax', then with an
\* else block 'je else', the then block, 'jmp end', 'else:', the else
\* block, 'end:', and without one 'je end', the then block, 'end:'; every
\* label the If jumps to is defined exactly once in these lines, after the
\* jump, and the two labels are distinct.
Blank(k) == [NewCodeGenerator EXCEPT !.label_counter = k]

DefinedOnceAfterJumps(lines, label) ==
    /\ Cardinality(Indices(lines, LabelDef(label))) = 1
    /\ \A i \in Indices(lines, Line("je", 0, label))
                \cup Indices(lines, Line("jmp", 0, label)) :
          \A d \in Indices(lines, LabelDef(label)) : i < d

\* lines[from+1 ..] starts with part
HasAt(lines, from, part) ==
    /\ from + Len(part) <= Len(lines)
    /\ SubSeq(lines, from + 1, from + Len(part)) = part

\* what follows the then block: with an else block, from `at` on
ElseShape(stmt, lines, at, else_label, end_label, counters) ==
    /\ else_label # end_label
    /\ HasAt(lines, at, <<Line("jmp", 0, end_label), LabelDef(else_label)>>)
    /\ \E k2 \in counters :
          \E elsec \in {GenerateBlock(Blank(k2), stmt.else).code} :
             /\ HasAt(lines, at + 2, elsec)
             /\ Len(lines) = at + 2 + Len(elsec) + 1
    /\ DefinedOnceAfterJumps(lines, else_label)
    /\ DefinedOnceAfterJumps(lines, end_label)

IfShape(stmt, lines, counters) ==
    \E condc \in {generate_expression(Blank(0), stmt.condition).code} :
        /\ HasAt(lines, 0, condc)
        /\ Len(lines) >= Len(condc) + 3
        /\ lines[Len(condc) + 1] = Ins("cmp $0, %eax")
        /\ lines[Len(condc) + 2].op = "je"
        /\ lines[Len(lines)].op = ":"
        /\ \E target \in {lines[Len(condc) + 2].name},
              end_label \in {lines[Len(lines)].name} :
             \E k1 \in counters :
             \E thenc \in {GenerateBlock(Blank(k1), stmt.then).code} :
                /\ HasAt(lines, Len(condc) + 2, thenc)
                /\ IF stmt.else # <<>>
                   THEN ElseShape(stmt, lines, Len(condc) + 2 + Len(thenc),
                                  target, end_label, counters)
                   ELSE /\ target = end_label
                        /\ Len(lines) = Len(condc) + 2 + Len(thenc) + 1
                        /\ DefinedOnceAfterJumps(lines, end_label)

C8_IfEmissionOrder ==
    [][ runs' = runs + 1 =>
          IfShape(ast, NewLines, gen.label_counter..gen'.label_counter) ]_vars

\* an If with both blocks was generated: its end label closes the buffer
C8_Witness ==
    /\ runs = 1
    /\ ast.type = "if" /\ ast.then # <<>> /\ ast.else # <<>>
    /\ gen.code[Len(gen.code)] = LabelDef(<<"L","2">>)
    /\ Line("jmp", 0, <<"L","2">>) \in { gen.code[i] : i \in 1..Len(gen.code) }

(***************************************************************************)
(* 32-bit two's complement words, kept in -2^31 .. 2^31 - 1.               *)
(***************************************************************************)
MaxInt == 2147483647
MinInt == -MaxInt - 1

Add32(a, b) ==
    IF a > 0 /\ b > 0 /\ a > MaxInt - b THEN (a + MinInt) + (b + MinInt)
    ELSE IF a < 0 /\ b < 0 /\ a < MinInt - b THEN (a - MinInt) + (b - MinInt)
    ELSE a + b

Sub32(a, b) ==
    IF a >= 0 /\ b < 0 /\ a > MaxInt + b THEN (a + MinInt) - (b - MinInt)
    ELSE IF a < 0 /\ b > 0 /\ a < MinInt + b THEN (a - MinInt) - (b + MinInt)
    ELSE a - b

\* the low 32 bits of a * n, n >= 0, by doubling
RECURSIVE MulNat32(_, _)
MulNat32(a, n) ==
    IF n = 0 THEN 0
    ELSE Let(Add32(a, a), LAMBDA d :
         Let(MulNat32(d, n \div 2), LAMBDA h :
             IF n % 2 = 1 THEN Add32(h, a) ELSE h))

Mul32(a, b) ==
    IF b >= 0 THEN MulNat32(a, b)
    ELSE IF b = MinInt THEN (IF a % 2 = 1 THEN MinInt ELSE 0)
    ELSE Sub32(0, MulNat32(a, -b))

\* idiv raises #DE on a zero divisor and on the one quotient out of range
DivFaults(a, b) == b = 0 \/ (a = MinInt /\ b = -1)

Abs(a) == IF a < 0 THEN -a ELSE a

\* the quotient rounded toward zero, where DivFaults is false
Quot32(a, b) ==
    IF b = MinInt THEN (IF a = MinInt THEN 1 ELSE 0)
    ELSE IF a = MinInt
    THEN (IF b > 0 THEN -(Abs(a + b) \div b) - 1
          ELSE (Abs(a - b) \div Abs(b)) + 1)
    ELSE IF (a < 0) = (b < 0) THEN Abs(a) \div Abs(b)
    ELSE -(Abs(a) \div Abs(b))

Rem32(a, b) == Sub32(a, Mul32(Quot32(a, b), b))

LowByte(a)    == a % 256
SetLow(a, b)  == a - LowByte(a) + b
Bit(p)        == IF p THEN 1 ELSE 0

(***************************************************************************)
(* The machine: registers, flags, and the stack below the initial %esp,    *)
(* which is address 0.  It runs the lines in gen.code from "_start:".      *)
(***************************************************************************)
StackAddrs == { -4 * i : i \in 1..MaxStack }

LabelIndex(code, label) ==
    CHOOSE i \in 1..Len(code) : code[i] = LabelDef(label)

MachStart(code, junk) ==
    [pc |-> LabelIndex(code, <<"_","s","t","a","r","t">>),
     eax |-> junk, ecx |-> junk, edx |-> junk, ebx |-> junk,
     esp |-> 0, ebp |-> junk,
     mem |-> [a \in StackAddrs |-> junk],
     zf |-> FALSE, lt |-> FALSE,
     halted |-> "run", steps |-> 0]

Cur == gen.code[mach.pc]

Running == mach.halted = "run" /\ mach.steps < MaxSteps

\* the machine after the instruction, with the next line to run
Advance(m) == [m EXCEPT !.pc = @ + 1, !.steps = @ + 1]

Halt(m, why) == [m EXCEPT !.halted = why, !.steps = @ + 1]

\* a store below the modelled stack stops the run
Store(m, addr, v) ==
    IF addr \in StackAddrs THEN [m EXCEPT !.mem[addr] = v]
    ELSE [m EXCEPT !.halted = "stack"]

Load(m, addr) == IF addr \in StackAddrs THEN m.mem[addr] ELSE 0

Push(m, v) == Store([m EXCEPT !.esp = @ - 4], m.esp - 4, v)

MoveOps == { "mov $, %eax", "mov (%ebp), %eax", "mov %eax, (%ebp)",
             "mov %eax, %ebx", "mov $1, %eax", "mov %esp, %ebp",
             "mov %ebp, %esp" }

ExecMove ==
    /\ Running
    /\ Cur.op \in MoveOps
    /\ mach' = Advance(
         IF Cur.op = "mov $, %eax" THEN [mach EXCEPT !.eax = Cur.arg]
         ELSE IF Cur.op = "mov (%ebp), %eax"
         THEN [mach EXCEPT !.eax = Load(mach, mach.ebp + Cur.arg)]
         ELSE IF Cur.op = "mov %eax, (%ebp)"
         THEN Store(mach, mach.ebp + Cur.arg, mach.eax)
         ELSE IF Cur.op = "mov %eax, %ebx" THEN [mach EXCEPT !.ebx = mach.eax]
         ELSE IF Cur.op = "mov $1, %eax" THEN [mach EXCEPT !.eax = 1]
         ELSE IF Cur.op = "mov %esp, %ebp" THEN [mach EXCEPT !.ebp = mach.esp]
         ELSE [mach EXCEPT !.esp = mach.ebp])
    /\ UNCHANGED notMachVars

StackOps == { "push %ebp", "push %eax", "pop %ecx", "pop %ebp", "sub $, %esp" }

ExecStack ==
    /\ Running
    /\ Cur.op \in StackOps
    /\ mach' = Advance(
         IF Cur.op = "push %ebp" THEN Push(mach, mach.ebp)
         ELSE IF Cur.op = "push %eax" THEN Push(mach, mach.eax)
         ELSE IF Cur.op = "pop %ecx"
         THEN [mach EXCEPT !.ecx = Load(mach, mach.esp), !.esp = @ + 4]
         ELSE IF Cur.op = "pop %ebp"
         THEN [mach EXCEPT !.ebp = Load(mach, mach.esp), !.esp = @ + 4]
         ELSE [mach EXCEPT !.esp = @ - Cur.arg])
    /\ UNCHANGED notMachVars

ArithOps == { "add %ecx, %eax", "sub %ecx, %eax", "imul %ecx, %eax", "cdq",
              "idiv %ecx" }

ExecArith ==
    /\ Running
    /\ Cur.op \in ArithOps
    /\ mach' =
         IF Cur.op = "add %ecx, %eax"
         THEN Advance([mach EXCEPT !.eax = Add32(mach.eax, mach.ecx)])
         ELSE IF Cur.op = "sub %ecx, %eax"
         THEN Advance([mach EXCEPT !.eax = Sub32(mach.eax, mach.ecx)])
         ELSE IF Cur.op = "imul %ecx, %eax"
         THEN Advance([mach EXCEPT !.eax = Mul32(mach.eax, mach.ecx)])
         ELSE IF Cur.op = "cdq"
         THEN Advance([mach EXCEPT !.edx = IF mach.eax < 0 THEN -1 ELSE 0])
         ELSE IF DivFaults(mach.eax, mach.ecx) THEN Halt(mach, "fault")
         ELSE Advance([mach EXCEPT !.eax = Quot32(mach.eax, mach.ecx),
                                   !.edx = Rem32(mach.eax, mach.ecx)])
    /\ UNCHANGED notMachVars

CompareOps == { "cmp %ecx, %eax", "cmp $0, %eax", "sete %al", "setne %al",
                "setl %al", "setg %al", "movzbl %al, %eax" }

ExecCompare ==
    /\ Running
    /\ Cur.op \in CompareOps
    /\ mach' = Advance(
         IF Cur.op = "cmp %ecx, %eax"
         THEN [mach EXCEPT !.zf = (mach.eax = mach.ecx),
                           !.lt = (mach.eax < mach.ecx)]
         ELSE IF Cur.op = "cmp $0, %eax"
         THEN [mach EXCEPT !.zf = (mach.eax = 0), !.lt = (mach.eax < 0)]
         ELSE IF Cur.op = "sete %al"
         THEN [mach EXCEPT !.eax = SetLow(@, Bit(mach.zf))]
         ELSE IF Cur.op = "setne %al"
         THEN [mach EXCEPT !.eax = SetLow(@, Bit(~mach.zf))]
         ELSE IF Cur.op = "setl %al"
         THEN [mach EXCEPT !.eax = SetLow(@, Bit(mach.lt))]
         ELSE IF Cur.op = "setg %al"
         THEN [mach EXCEPT !.eax = SetLow(@, Bit(~mach.zf /\ ~mach.lt))]
         ELSE [mach EXCEPT !.eax = LowByte(@)])
    /\ UNCHANGED notMachVars

ExecJump ==
    /\ Running
    /\ Cur.op \in { "je", "jmp", ":" }
    /\ mach' =
         IF Cur.op = "jmp" \/ (Cur.op = "je" /\ mach.zf)
         THEN [mach EXCEPT !.pc = LabelIndex(gen.code, Cur.name),
                           !.steps = @ + 1]
         ELSE Advance(mach)
    /\ UNCHANGED notMachVars

\* int $0x80 with %eax = 1 ends the process; ret at the end of _start
\* returns to no caller
ExecLeave ==
    /\ Running
    /\ Cur.op \in { "int $0x80", "ret" }
    /\ mach' = Halt(mach, IF Cur.op = "ret" THEN "fault" ELSE "exit")
    /\ UNCHANGED notMachVars

(***************************************************************************)
(* The direct reading of a function body over its one variable: st.a is    *)
(* the variable, [ok |-> FALSE] before its first assignment.               *)
(***************************************************************************)
Val(v) == [ok |-> TRUE, v |-> v]
Undef  == [ok |-> FALSE, v |-> 0]

BinValue(op, l, r) ==
    IF op = <<"+">> THEN Val(Add32(l, r))
    ELSE IF op = <<"-">> THEN Val(Sub32(l, r))
    ELSE IF op = <<"*">> THEN Val(Mul32(l, r))
    ELSE IF op = <<"/">>
    THEN (IF DivFaults(l, r) THEN Undef ELSE Val(Quot32(l, r)))
    ELSE IF op = <<"=","=">> THEN Val(Bit(l = r))
    ELSE IF op = <<"!","=">> THEN Val(Bit(l # r))
    ELSE IF op = <<"<">> THEN Val(Bit(l < r))
    ELSE IF op = <<">">> THEN Val(Bit(l > r))
    ELSE Undef

RECURSIVE Eval(_, _)
Eval(e, a) ==
    IF e.type = "number" THEN Val(e.value)
    ELSE IF e.type = "variable" THEN a
    ELSE Let(Eval(e.left, a), LAMBDA l :
         Let(Eval(e.right, a), LAMBDA r :
             IF l.ok /\ r.ok THEN BinValue(e.op, l.v, r.v) ELSE Undef))

RECURSIVE RunBlock(_, _), RunStmt(_, _), RunWhile(_, _)

RunBlock(block, st) ==
    IF block = <<>> \/ st.status # "next" THEN st
    ELSE RunBlock(Tail(block), RunStmt(Head(block), st))

RunWhile(s, st) ==
    IF st.status # "next" THEN st
    ELSE IF st.fuel = 0 THEN [st EXCEPT !.status = "fuel"]
    ELSE Let(Eval(s.condition, st.a), LAMBDA c :
             IF ~c.ok THEN [st EXCEPT !.status = "undefined"]
             ELSE IF c.v = 0 THEN st
             ELSE RunWhile(s, RunBlock(s.body, [st EXCEPT !.fuel = @ - 1])))

RunStmt(s, st) ==
    IF s.type = "declaration" THEN st
    ELSE IF s.type = "while" THEN RunWhile(s, st)
    ELSE Let(Eval(IF s.type = "if" THEN s.condition ELSE s.expression, st.a),
             LAMBDA v :
             IF ~v.ok THEN [st EXCEPT !.status = "undefined"]
             ELSE IF s.type = "assignment" THEN [st EXCEPT !.a = v]
             ELSE IF s.type = "return"
             THEN [st EXCEPT !.status = "returned", !.value = v.v]
             ELSE IF v.v # 0 THEN RunBlock(s.then, st)
             ELSE RunBlock(s.else, st))

Interpret(body) ==
    RunBlock(body, [status |-> "next", a |-> Undef, value |-> 0,
                    fuel |-> MaxFuel])

(***************************************************************************)
(* SpecExec: compile a one-variable program of main and run the lines on   *)
(* the machine.  The one declaration of the variable stands first in the   *)
(* body, last in it, or inside the body of an if or of a while.            *)
(***************************************************************************)
Op(o, l, r) == BinaryOp(o, l, r)
A           == Variable(VarA)

ExecOps == { <<"+">>, <<"-">>, <<"*">>, <<"/">>, <<"=","=">>, <<"!","=">>,
             <<"<">>, <<">">> }

ExecLiterals == { Number(0), Number(1), Number(3) }

ExecExprs ==
    {A} \cup ExecLiterals
    \cup { Op(o, A, n) : o \in ExecOps, n \in ExecLiterals }
    \cup { Op(o, n, A) : o \in ExecOps, n \in ExecLiterals }
    \cup { Op(o, A, A) : o \in ExecOps }
    \cup { Op(<<"*">>, Op(<<"+">>, A, Number(1)), A),
           Op(<<"-">>, A, Op(<<"-">>, A, Number(1))),
           Op(<<"<">>, Op(<<"-">>, Number(0), A), Op(<<"/">>, A, Number(3))) }

ExecFirst == { Number(2), Number(MaxInt) }

ExecMiddles ==
    { <<>>,
      <<If(Op(<<"<">>, A, Number(3)),
           <<Assignment(VarA, Op(<<"+">>, A, Number(1)))>>, <<>>)>>,
      <<If(Op(<<"=","=">>, A, Number(2)),
           <<Assignment(VarA, Op(<<"*">>, A, Number(3)))>>,
           <<Assignment(VarA, Op(<<"-">>, A, Number(1)))>>)>>,
      <<While(Op(<<"<">>, A, Number(3)),
              <<Assignment(VarA, Op(<<"+">>, A, Number(1)))>>)>>,
      <<If(Op(<<">">>, A, Number(3)), <<Return(A)>>, <<>>)>> }

ExecLasts == { <<Return(e)>> : e \in ExecExprs } \cup { <<>> }

ExecSites == { "first", "last", "if", "while" }

ExecBody(site, first, middle, last) ==
    (IF site = "first" THEN <<Declaration(VarA)>>
     ELSE IF site = "if" THEN <<If(Number(1), <<Declaration(VarA)>>, <<>>)>>
     ELSE IF site = "while" THEN <<While(Number(0), <<Declaration(VarA)>>)>>
     ELSE <<>>)
    \o <<Assignment(VarA, first)>> \o middle \o last
    \o (IF site = "last" THEN <<Declaration(VarA)>> ELSE <<>>)

ExecPrograms ==
    { Program(<<Function(Main, ExecBody(s, f, m, l))>>) :
        s \in ExecSites, f \in ExecFirst, m \in ExecMiddles, l \in ExecLasts }

\* what a register or a stack cell holds before the program writes it
Junk == { 0, 5 }

ExecInit ==
    /\ ast \in ExecPrograms
    /\ gen = NewCodeGenerator
    /\ runs = 0
    /\ past = <<>>
    /\ LexIdle /\ ParseIdle /\ MachIdle

\* generator.generate(ast), line 399, and the load of its output
ExecCompile ==
    /\ gen.code = <<>>
    /\ gen' = generate(gen, ast)
    /\ \E junk \in Junk : mach' = MachStart(gen'.code, junk)
    /\ UNCHANGED <<ast, runs, past, lexVars, parseVars>>

ExecNext ==
    \/ ExecCompile
    \/ ExecMove
    \/ ExecStack
    \/ ExecArith
    \/ ExecCompare
    \/ ExecJump
    \/ ExecLeave

SpecExec == ExecInit /\ [][ExecNext]_vars

MainBody == ast.functions[1].body

AtReturnExit == mach.halted = "run" /\ Cur.op = "mov %eax, %ebx"

\* C2: when the machine is about to run a Return's exit sequence, %eax holds
\* the value the direct interpretation of main's statements returns.
C2_EaxMatchesInterpretation ==
    AtReturnExit =>
        \E r \in {Interpret(MainBody)} :
            r.status \in {"returned", "next"} =>
                r.status = "returned" /\ mach.eax = r.value

====
